---- MODULE Spec2Model ----
(***************************************************************************)
(* Sage-Lens (src/sage-lens.py): one Streamlit session.  A script run is   *)
(* the unit of execution: a click on "Generate" runs SageLensSystem()      *)
(* .process_query(topic) call by call, stores the record in                *)
(* st.session_state and renders the results area; a click on a version     *)
(* button runs its on_click callback and renders again.                    *)
(***************************************************************************)
EXTENDS Integers, Sequences, FiniteSets, TLC

VARIABLES
    history,      \* st.session_state.history
    current,      \* st.session_state.current_result
    pc,           \* position of the script run
    idx,          \* index of the provider loop of process_query
    versions,     \* process_query: versions
    result,       \* process_query: result
    all_results,  \* _search_web: all_results
    calls,        \* per provider, what each call of the running process_query got
    crashed,      \* the last script run ended in an uncaught exception
    buttons       \* records captured by the rendered version buttons (r=rev)

vars == <<history, current, pc, idx, versions, result, all_results, calls, crashed, buttons>>

\* ---------------------------------------------------------------- bounds
MaxHistory == 2
MaxLen == 1

\* ------------------------------------------------------- program constants
WebLimit == 10
VideoLimit == 5

\* ----------------------------------------------------------- Python values
None == [none |-> TRUE]
\* a Python str held where the code also holds a dict
PyStr(s) == [pystr |-> s]
IsStr(v) == "pystr" \in DOMAIN v
\* bool(v) for the values the code tests: None, a str, a (non-empty) dict
Truthy(v) ==
    IF v = None THEN FALSE
    ELSE IF IsStr(v) THEN Len(v.pystr) > 0
    ELSE DOMAIN v # {}

Take(s, n) == SubSeq(s, 1, IF Len(s) < n THEN Len(s) ELSE n)

\* ------------------------------------------------------------ LLM providers
LLMProviders == <<"openai", "anthropic">>
SearchProviders == {"tavily", "serper", "youtube"}
Providers == {LLMProviders[i] : i \in DOMAIN LLMProviders} \cup SearchProviders

ProviderLabel(provider) ==
    IF provider = "anthropic" THEN "Claude-3.5-Sonnet" ELSE "OpenAI-GPT4"

\* generated texts, by length
Text(n) == [i \in 1..n |-> "x"]
Texts == {Text(n) : n \in 0..MaxLen}
\* time.time() - start_time; nothing the program does reads it back
Latencies == {2}

\* ------------------------------------------------------- process_query:101
EmptyResult == [content |-> PyStr(""), references |-> [web |-> <<>>, videos |-> <<>>]]

\* variant: a later element of equal length replaces the best so far
RECURSIVE MaxFromLast(_, _, _)
MaxFromLast(vs, i, best) ==
    IF i > Len(vs) THEN best
    ELSE IF Len(vs[i].content) >= Len(best.content)
         THEN MaxFromLast(vs, i + 1, vs[i])
         ELSE MaxFromLast(vs, i + 1, best)

\* max(versions, key=lambda x: len(x["content"])): the first maximal element
RECURSIVE MaxFrom(_, _, _)
MaxFrom(vs, i, best) ==
    IF i > Len(vs) THEN best
    ELSE IF Len(vs[i].content) > Len(best.content)
         THEN MaxFrom(vs, i + 1, vs[i])
         ELSE MaxFrom(vs, i + 1, best)
MaxByLen(vs) == MaxFrom(vs, 2, vs[1])

\* ---------------------------------------------------------- _search_web
\* [{"title": r.get("title", "Untitled"), "url": r[key]} for r in rs if key in r]
RECURSIVE Normalize(_, _, _)
Normalize(rs, key, dflt) ==
    IF rs = <<>> THEN <<>>
    ELSE LET r == Head(rs)
             rest == Normalize(Tail(rs), key, dflt)
         IN IF key \in DOMAIN r
            THEN <<[title |-> IF "title" \in DOMAIN r THEN r.title ELSE dflt,
                    url |-> r[key]]>> \o rest
            ELSE rest

\* response.get(field, [])
GetList(resp, field) == IF field \in DOMAIN resp THEN resp[field] ELSE <<>>

\* variant: a URL is kept at its last occurrence
RECURSIVE DedupFromLast(_, _)
DedupFromLast(xs, seen) ==
    IF xs = <<>> THEN <<>>
    ELSE IF \E j \in 2..Len(xs) : xs[j].url = Head(xs).url
         THEN DedupFromLast(Tail(xs), seen)
         ELSE <<Head(xs)>> \o DedupFromLast(Tail(xs), seen)

\* [x for x in all if not (x["url"] in seen or seen.add(x["url"]))]
RECURSIVE DedupFrom(_, _)
DedupFrom(xs, seen) ==
    IF xs = <<>> THEN <<>>
    ELSE IF Head(xs).url \in seen
         THEN DedupFrom(Tail(xs), seen)
         ELSE <<Head(xs)>> \o DedupFrom(Tail(xs), seen \cup {Head(xs).url})
Dedup(xs) == Take(DedupFrom(xs, {}), WebLimit)

\* --------------------------------------------------------- _search_videos
RECURSIVE NormalizeVideos(_)
NormalizeVideos(rs) ==
    IF rs = <<>> THEN <<>>
    ELSE LET r == Head(rs)
             rest == NormalizeVideos(Tail(rs))
         IN IF "id" \in DOMAIN r
            THEN <<[title |-> IF "title" \in DOMAIN r THEN r.title ELSE "Untitled Video",
                    url |-> "https://youtube.com/watch?v=" \o r.id,
                    views |-> IF "views" \in DOMAIN r THEN r.views ELSE "N/A"]>> \o rest
            ELSE rest
Videos(rs) == Take(NormalizeVideos(rs), VideoLimit)

\* ------------------------------------------------- provider responses
TavilySmall ==
    { [results |-> <<[title |-> "A", url |-> "a.com"]>>],
      [answer |-> "none"] }
SerperSmall ==
    { [organic |-> <<[title |-> "A2", link |-> "a.com"]>>],
      [message |-> "Unauthorized"] }
VideoSmall ==
    { [videos |-> <<>>],
      [videos |-> <<[id |-> "v1", title |-> "V", views |-> "10"], [title |-> "noid"]>>] }
\* a provider call that raises
Raise == [raise |-> TRUE]
IsRaise(resp) == "raise" \in DOMAIN resp
LLMResponses == [text : Texts, latency : Latencies]
NoCalls == [p \in Providers |-> <<>>]
Called(p, resp) == [calls EXCEPT ![p] = Append(@, resp)]

\* ------------------------------------------------------------------ Init
Init ==
    /\ history = <<>>
    /\ current = None
    /\ pc = "idle"
    /\ idx = 1
    /\ versions = <<>>
    /\ result = EmptyResult
    /\ all_results = <<>>
    /\ calls = NoCalls
    /\ crashed = FALSE
    /\ buttons = <<>>

\* ------------------------------------------------------------ main:157-158
\* the click on "Generate"; a blank topic skips the query.  Queries are started
\* while the history holds fewer than MaxHistory records.
ClickGenerate ==
    /\ pc = "idle"
    /\ \E blank \in BOOLEAN :
         IF blank
         THEN /\ pc' = "render"
              /\ UNCHANGED calls
         ELSE /\ Len(history) < MaxHistory
              /\ pc' = "init"
              /\ calls' = NoCalls
    /\ UNCHANGED <<history, current, idx, versions, result, all_results, crashed, buttons>>

\* ------------------------------------------------- SageLensSystem.__init__
InitOk ==
    /\ pc = "init"
    /\ pc' = "generate"
    /\ idx' = 1
    /\ versions' = <<>>
    /\ result' = EmptyResult
    /\ UNCHANGED <<history, current, all_results, calls, crashed, buttons>>

\* the constructor re-raises: the script run ends at line 160, nothing assigned
InitFail ==
    /\ pc = "init"
    /\ pc' = "idle"
    /\ crashed' = TRUE
    /\ buttons' = <<>>
    /\ UNCHANGED <<history, current, idx, versions, result, all_results, calls>>

\* ------------------------------------------------------- _generate_content
GenerationOutcome(provider, resp) ==
    IF IsRaise(resp) THEN None
    ELSE [content |-> resp.text, provider |-> ProviderLabel(provider), latency |-> resp.latency]

\* variant: a provider failure discards the versions collected so far
GenerateContentAbort ==
    /\ pc = "generate"
    /\ \E resp \in LLMResponses \cup {Raise} :
         LET provider == LLMProviders[idx]
             content == GenerationOutcome(provider, resp)
         IN /\ calls' = Called(provider, resp)
            /\ versions' = IF Truthy(content) THEN Append(versions, content) ELSE <<>>
    /\ idx' = idx + 1
    /\ pc' = IF idx = Len(LLMProviders) THEN "select" ELSE "generate"
    /\ UNCHANGED <<history, current, result, all_results, crashed, buttons>>

\* one iteration of the loop of process_query:104-106
GenerateContent ==
    /\ pc = "generate"
    /\ \E resp \in LLMResponses \cup {Raise} :
         LET provider == LLMProviders[idx]
             content == GenerationOutcome(provider, resp)
         IN /\ calls' = Called(provider, resp)
            /\ versions' = IF Truthy(content) THEN Append(versions, content) ELSE versions
    /\ idx' = idx + 1
    /\ pc' = IF idx = Len(LLMProviders) THEN "select" ELSE "generate"
    /\ UNCHANGED <<history, current, result, all_results, crashed, buttons>>

\* variant: the searches run whether or not a version was generated
SelectVersionAlways ==
    /\ pc = "select"
    /\ result' = IF versions # <<>> THEN [result EXCEPT !.content = MaxByLen(versions)] ELSE result
    /\ all_results' = <<>>
    /\ pc' = "tavily"
    /\ UNCHANGED <<history, current, idx, versions, calls, crashed, buttons>>

\* process_query:107-108.  Every content is a str, so len() does not raise and
\* the handler of lines 111-112 is never entered.
SelectVersion ==
    /\ pc = "select"
    /\ IF versions # <<>>
       THEN /\ result' = [result EXCEPT !.content = MaxByLen(versions)]
            /\ all_results' = <<>>
            /\ pc' = "tavily"
       ELSE /\ pc' = "return"
            /\ UNCHANGED <<result, all_results>>
    /\ UNCHANGED <<history, current, idx, versions, calls, crashed, buttons>>

\* variant: a Tavily failure is swallowed and Serper is still queried
SearchTavilyContinue(Responses) ==
    /\ pc = "tavily"
    /\ \E resp \in Responses \cup {Raise} :
         /\ calls' = Called("tavily", resp)
         /\ all_results' = IF IsRaise(resp) THEN all_results
                           ELSE all_results \o Normalize(GetList(resp, "results"), "url", "Untitled")
    /\ pc' = "serper"
    /\ UNCHANGED <<history, current, idx, versions, result, crashed, buttons>>

\* variant: a Tavily failure escapes _search_web and ends process_query
SearchTavilyAbort(Responses) ==
    /\ pc = "tavily"
    /\ \E resp \in Responses \cup {Raise} :
         /\ calls' = Called("tavily", resp)
         /\ IF IsRaise(resp)
            THEN /\ result' = [result EXCEPT !.references.web = <<>>]
                 /\ pc' = "return"
                 /\ UNCHANGED all_results
            ELSE /\ all_results' = all_results \o Normalize(GetList(resp, "results"), "url", "Untitled")
                 /\ pc' = "serper"
                 /\ UNCHANGED result
    /\ UNCHANGED <<history, current, idx, versions, crashed, buttons>>

\* _search_web:37-41; an exception ends _search_web with []
SearchTavily(Responses) ==
    /\ pc = "tavily"
    /\ \E resp \in Responses \cup {Raise} :
         /\ calls' = Called("tavily", resp)
         /\ IF IsRaise(resp)
            THEN /\ result' = [result EXCEPT !.references.web = <<>>]
                 /\ pc' = "videos"
                 /\ UNCHANGED all_results
            ELSE /\ all_results' = all_results \o Normalize(GetList(resp, "results"), "url", "Untitled")
                 /\ pc' = "serper"
                 /\ UNCHANGED result
    /\ UNCHANGED <<history, current, idx, versions, crashed, buttons>>

\* variant: a Serper failure returns what Tavily had found
SearchSerperPartial(Responses) ==
    /\ pc = "serper"
    /\ \E resp \in Responses \cup {Raise} :
         /\ calls' = Called("serper", resp)
         /\ LET all == IF IsRaise(resp) THEN all_results
                       ELSE all_results \o Normalize(GetList(resp, "organic"), "link", "Untitled")
            IN /\ all_results' = all
               /\ result' = [result EXCEPT !.references.web = Dedup(all)]
    /\ pc' = "videos"
    /\ UNCHANGED <<history, current, idx, versions, crashed, buttons>>

\* _search_web:44-56
SearchSerper(Responses) ==
    /\ pc = "serper"
    /\ \E resp \in Responses \cup {Raise} :
         /\ calls' = Called("serper", resp)
         /\ IF IsRaise(resp)
            THEN /\ result' = [result EXCEPT !.references.web = <<>>]
                 /\ UNCHANGED all_results
            ELSE LET all == all_results \o Normalize(GetList(resp, "organic"), "link", "Untitled")
                 IN /\ all_results' = all
                    /\ result' = [result EXCEPT !.references.web = Dedup(all)]
    /\ pc' = "videos"
    /\ UNCHANGED <<history, current, idx, versions, crashed, buttons>>

\* process_query:110 and _search_videos
SearchVideos ==
    /\ pc = "videos"
    /\ \E resp \in VideoSmall \cup {Raise} :
         /\ calls' = Called("youtube", resp)
         /\ result' = [result EXCEPT !.references.videos =
                           IF IsRaise(resp) THEN <<>> ELSE Videos(resp.videos)]
    /\ pc' = "return"
    /\ UNCHANGED <<history, current, idx, versions, all_results, crashed, buttons>>

\* variant: the new record is put at the head of the history
StoreResultPrepend ==
    /\ pc = "return"
    /\ current' = result
    /\ history' = IF Truthy(result.content) THEN <<result>> \o history ELSE history
    /\ pc' = "render"
    /\ idx' = 1
    /\ versions' = <<>>
    /\ result' = EmptyResult
    /\ all_results' = <<>>
    /\ calls' = NoCalls
    /\ UNCHANGED <<crashed, buttons>>

\* main:160-163: process_query has returned result; st.rerun() restarts the
\* script with the button released, so both branches go on to the display
StoreResult ==
    /\ pc = "return"
    /\ current' = result
    /\ history' = IF Truthy(result.content) THEN Append(history, result) ELSE history
    /\ pc' = "render"
    /\ idx' = 1
    /\ versions' = <<>>
    /\ result' = EmptyResult
    /\ all_results' = <<>>
    /\ calls' = NoCalls
    /\ UNCHANGED <<crashed, buttons>>

\* main:166-219, the results display
Render ==
    /\ pc = "render"
    /\ IF ~Truthy(current)
       THEN /\ crashed' = FALSE
            /\ buttons' = <<>>
       ELSE IF IsStr(current.content)
            \* result["content"]["content"] on a str: TypeError at line 175
            THEN /\ crashed' = TRUE
                 /\ buttons' = <<>>
            ELSE /\ crashed' = FALSE
                 /\ buttons' = IF Len(history) > 1 THEN history ELSE <<>>
    /\ pc' = "idle"
    /\ UNCHANGED <<history, current, idx, versions, result, all_results, calls>>

\* main:211-216: on_click=lambda r=rev: st.session_state.update(current_result=r)
LoadVersion ==
    /\ pc = "idle"
    /\ \E i \in DOMAIN buttons : current' = buttons[i]
    /\ pc' = "render"
    /\ UNCHANGED <<history, idx, versions, result, all_results, calls, crashed, buttons>>

Next ==
    \/ ClickGenerate
    \/ InitOk
    \/ InitFail
    \/ GenerateContent
    \/ SelectVersion
    \/ SearchTavily(TavilySmall)
    \/ SearchSerper(SerperSmall)
    \/ SearchVideos
    \/ StoreResult
    \/ Render
    \/ LoadVersion

Spec == Init /\ [][Next]_vars

\* ------------------------------------------- _search_web on its own inputs
Urls == {"a.com", "b.com", "c.com"}
LongUrls == <<"u01", "u02", "u03", "u04", "u05", "u06",
              "u07", "u08", "u09", "u10", "u11", "u12">>
\* raw result entries: with a title, without one, without the URL field
RawEntries(key, t) ==
    {(key :> u) @@ [title |-> t] : u \in Urls} \cup {(key :> u) : u \in Urls} \cup {[title |-> t]}
RawLists(key, t) ==
    {<<>>} \cup {<<e>> : e \in RawEntries(key, t)}
           \cup {<<e, f>> : e \in RawEntries(key, t), f \in RawEntries(key, t)}
LongList(key, t, from, to) == [i \in 1..(to - from + 1) |-> (key :> LongUrls[from + i - 1]) @@ [title |-> t]]
TavilyAll ==
    {[results |-> l] : l \in RawLists("url", "T")}
        \cup {[results |-> LongList("url", "T", 1, 6)], [answer |-> "none"]}
SerperAll ==
    {[organic |-> l] : l \in RawLists("link", "S")}
        \cup {[organic |-> LongList("link", "S", 6, 12)], [message |-> "Unauthorized"]}

\* process_query has selected a version and enters _search_web
InitWeb ==
    LET resp == [text |-> Text(1), latency |-> 2]
        outcome == GenerationOutcome("openai", resp)
    IN /\ history = <<>>
       /\ current = None
       /\ pc = "tavily"
       /\ idx = Len(LLMProviders) + 1
       /\ versions = <<outcome>>
       /\ result = [EmptyResult EXCEPT !.content = outcome]
       /\ all_results = <<>>
       /\ calls = [NoCalls EXCEPT !["openai"] = <<resp>>, !["anthropic"] = <<Raise>>]
       /\ crashed = FALSE
       /\ buttons = <<>>

NextWeb ==
    \/ SearchTavily(TavilyAll)
    \/ SearchSerper(SerperAll)

SpecWeb == InitWeb /\ [][NextWeb]_vars

TypeOK ==
    /\ pc \in {"idle", "init", "generate", "select", "tavily", "serper", "videos", "return", "render"}
    /\ idx \in 1..(Len(LLMProviders) + 1)
    /\ Len(history) <= MaxHistory
    /\ Len(versions) <= Len(LLMProviders)
    /\ crashed \in BOOLEAN
    /\ DOMAIN calls = Providers

\* ================================================================ properties
\* what the call log of the running query says
Failed(p) == calls[p] # <<>> /\ IsRaise(calls[p][1])
Succeeded(p) == calls[p] # <<>> /\ ~IsRaise(calls[p][1])
Produced(p) == GenerationOutcome(p, calls[p][1])
SomeGenerated == Succeeded("openai") \/ Succeeded("anthropic")
WebFailed == Failed("tavily") \/ Failed("serper")
InSearch == pc \in {"tavily", "serper", "videos", "return"}

\* the entries of both responses that carry a URL, Tavily's before Serper's
WithKey(rs, key) == SelectSeq(rs, LAMBDA r : key \in DOMAIN r)
AsResult(r, key) ==
    [title |-> IF "title" \in DOMAIN r THEN r.title ELSE "Untitled", url |-> r[key]]
Concatenation(tresp, sresp) ==
    LET t == WithKey(GetList(tresp, "results"), "url")
        s == WithKey(GetList(sresp, "organic"), "link")
    IN [i \in 1..(Len(t) + Len(s)) |->
            IF i <= Len(t) THEN AsResult(t[i], "url") ELSE AsResult(s[i - Len(t)], "link")]
FirstOccurrences(cat) == {i \in DOMAIN cat : \A j \in 1..(i - 1) : cat[j].url # cat[i].url}
\* out is cat with every URL at its first occurrence only, cut to 10 entries
IsStableDedup(out, cat) ==
    LET F == FirstOccurrences(cat)
    IN /\ Len(out) = IF Cardinality(F) < 10 THEN Cardinality(F) ELSE 10
       /\ \A k \in DOMAIN out :
            \E i \in F : out[k] = cat[i] /\ Cardinality({j \in F : j <= i}) = k
\* out is the videos of raw that carry an id, in order, cut to 5 entries
IsVideoList(out, raw) ==
    LET kept == SelectSeq(raw, LAMBDA r : "id" \in DOMAIN r)
    IN /\ Len(out) = IF Len(kept) < 5 THEN Len(kept) ELSE 5
       /\ \A k \in DOMAIN out : out[k].url = "https://youtube.com/watch?v=" \o kept[k].id

\* C1: current is None or equal to a record of the history.
C1_CurrentInHistory ==
    current = None \/ \E i \in DOMAIN history : history[i] = current

\* C2: history only changes by appending the record of a query that produced
\* content, at the end; the version buttons hold the history in order, and
\* loading a version sets current to an entry of the history and leaves the
\* history and the provider calls alone, ending in the display, not in a query.
C2_HistoryAppendOnly ==
    /\ [](pc = "idle" => (buttons = <<>> \/ buttons = history))
    /\ [][ /\ (pc = "return" /\ Truthy(result.content)) => history' = Append(history, result)
           /\ ~(pc = "return" /\ Truthy(result.content)) => history' = history
           /\ (pc = "idle" /\ pc' = "render") =>
                /\ calls' = calls
                /\ current' = current \/ \E i \in DOMAIN buttons : current' = history[i]
           /\ pc = "render" => (pc' = "idle" /\ calls' = calls) ]_vars
C2_OlderVersionLoaded ==
    /\ pc = "idle"
    /\ ~crashed
    /\ Len(history) = 2
    /\ history[1] # history[2]
    /\ current = history[1]

\* C3: after a submit on which every LLM provider failed, the record is not in
\* the history and the script run ends without an uncaught exception.
C3_EmptyContentHandled ==
    (pc = "idle" /\ current # None /\ ~Truthy(current.content)) =>
        /\ ~crashed
        /\ \A i \in DOMAIN history : history[i] # current

\* C4 as stated: when process_query returns, each of the five providers has
\* been called exactly once.
C4_EachCalledExactlyOnce ==
    pc = "return" => \A p \in Providers : Len(calls[p]) = 1
\* C4 amended: no provider is called twice in a query; when process_query
\* returns, both LLM providers have been called once, Tavily and YouTube once
\* if a version was generated and not otherwise, Serper once if Tavily was
\* called and did not fail and not otherwise.
C4_AtMostOnce ==
    /\ \A p \in Providers : Len(calls[p]) <= 1
    /\ pc = "return" =>
         /\ Len(calls["openai"]) = 1
         /\ Len(calls["anthropic"]) = 1
         /\ Len(calls["tavily"]) = IF SomeGenerated THEN 1 ELSE 0
         /\ Len(calls["youtube"]) = IF SomeGenerated THEN 1 ELSE 0
         /\ Len(calls["serper"]) = IF Succeeded("tavily") THEN 1 ELSE 0
C4_SerperSkipped ==
    /\ pc = "return"
    /\ Failed("tavily")
    /\ calls["serper"] = <<>>
    /\ Len(calls["youtube"]) = 1

\* C5: when both LLM providers failed, no search provider is called during the
\* query and process_query returns the empty record.
C5_TotalFailure ==
    (Failed("openai") /\ Failed("anthropic")) =>
        /\ \A p \in SearchProviders : calls[p] = <<>>
        /\ pc \in {"select", "return"}
        /\ pc = "return" => result = EmptyResult
C5_BothFailedReturned ==
    pc = "return" /\ Failed("openai") /\ Failed("anthropic")

\* C6: of two generated versions the longer is selected, and openai's when
\* they are equally long.
C6_Selection ==
    (InSearch /\ Succeeded("openai") /\ Succeeded("anthropic")) =>
        LET a == Produced("openai")
            b == Produced("anthropic")
        IN /\ Len(a.content) > Len(b.content) => result.content = a
           /\ Len(b.content) > Len(a.content) => result.content = b
           /\ Len(a.content) = Len(b.content) => result.content = a
C6_TieSelectsOpenai ==
    /\ pc = "return"
    /\ Succeeded("openai") /\ Succeeded("anthropic")
    /\ Len(calls["openai"][1].text) = Len(calls["anthropic"][1].text)
    /\ result.content.provider = "OpenAI-GPT4"

\* C7: when one LLM provider failed and the other succeeded, process_query
\* returns the other's outcome as content, after one web and one video search.
C7_FailureIsolation ==
    pc = "return" =>
        \A p, q \in {"openai", "anthropic"} :
            (Failed(p) /\ Succeeded(q)) =>
                /\ result.content = Produced(q)
                /\ Len(calls["tavily"]) = 1
                /\ Len(calls["youtube"]) = 1
C7_FirstFailedSecondUsed ==
    /\ pc = "return"
    /\ Failed("openai")
    /\ Succeeded("anthropic")
    /\ result.content.provider = "Claude-3.5-Sonnet"

\* C8: when both web searches returned, _search_web gives Tavily's entries
\* followed by Serper's, each URL at its first occurrence only, at most 10.
C8_Dedup ==
    (pc = "videos" /\ Succeeded("tavily") /\ Succeeded("serper")) =>
        IsStableDedup(result.references.web,
                      Concatenation(calls["tavily"][1], calls["serper"][1]))
C8_Example ==
    /\ pc = "videos"
    /\ calls["tavily"] = <<[results |-> <<[url |-> "a.com"], [url |-> "b.com"]>>]>>
    /\ calls["serper"] = <<[organic |-> <<[link |-> "b.com"], [link |-> "c.com"]>>]>>
    /\ result.references.web = <<[title |-> "Untitled", url |-> "a.com"],
                                 [title |-> "Untitled", url |-> "b.com"],
                                 [title |-> "Untitled", url |-> "c.com"]>>

\* C9: when the Tavily or the Serper call failed, _search_web returned the
\* empty list and process_query went on.
C9_WebFailureEmpty ==
    WebFailed =>
        /\ pc \in {"videos", "return"}
        /\ result.references.web = <<>>
C9_SerperFailedAfterTavily ==
    /\ pc = "videos"
    /\ Succeeded("tavily")
    /\ Normalize(GetList(calls["tavily"][1], "results"), "url", "Untitled") # <<>>
    /\ Failed("serper")
    /\ result.references.web = <<>>

\* C10: when a version was generated, process_query returns it with both
\* searches made: a failed web search gives no web references and leaves the
\* videos found, a failed video search gives no videos and leaves the web
\* references found.
C10_SearchesIndependent ==
    (pc = "return" /\ SomeGenerated) =>
        /\ ~IsStr(result.content)
        /\ \E p \in {"openai", "anthropic"} : Succeeded(p) /\ result.content = Produced(p)
        /\ Len(calls["tavily"]) = 1
        /\ Len(calls["youtube"]) = 1
        /\ WebFailed => result.references.web = <<>>
        /\ ~WebFailed => IsStableDedup(result.references.web,
                                       Concatenation(calls["tavily"][1], calls["serper"][1]))
        /\ Failed("youtube") => result.references.videos = <<>>
        /\ Succeeded("youtube") =>
               IsVideoList(result.references.videos, calls["youtube"][1].videos)
C10_WebFailedVideosKept ==
    /\ pc = "return"
    /\ Failed("tavily")
    /\ result.references.web = <<>>
    /\ result.references.videos # <<>>

====
